---- MODULE Spec2Model ----
(***************************************************************************)
(* A model of DemodulateOOK (src/main.cpp): the sample decoder, the        *)
(* histogram and threshold pass, the debounced span extractor shared by    *)
(* getSpans and printMessage, the bit-width search and the byte packing.   *)
(***************************************************************************)
EXTENDS Integers, Sequences, FiniteSets, TLC

VARIABLES
    pc,             \* where the run is: the function whose loop reads next, or how it ended
    mode,           \* the caller of ignoreFirstSpan/getNextSpan: "getSpans" or "printMessage"
    fileFormat,     \* main's fileFormat word
    onOffThreshold, \* main's onOffThreshold
    pos,            \* samples read since the data start (the file offset, in frames)
    error,          \* getSample's *error of the last read
    eof,            \* feof(fin)
    newState,       \* ignoreFirstSpan/getNextSpan: state of the sample just read
    state,          \* the caller's 'state', passed by reference
    curState,       \* ignoreFirstSpan/getNextSpan: curState
    nextCount,      \* ignoreFirstSpan/getNextSpan: nextCount
    count,          \* getNextSpan: count
    leftOver,       \* the caller's leftOver
    spans,          \* getSpans: the span histogram, the nonzero counters only
    realMaxSpan,    \* getSpans: realMaxSpan
    singleBitWidth, \* main's singleBitWidth
    bitLength,      \* printMessage: bitLength
    currentByte,    \* printMessage: currentByte
    out,            \* stdout of printMessage: the characters printed so far
    ret,            \* the value the caller (getSpans / printMessage) returned
    emitted,        \* history: the spans getNextSpan returned, <<state, length, seed state>>
    seedState,      \* history: state of the confirming samples that seed the current span
    firstExc,       \* history: pos at the start of the first confirming excursion
    lastExc,        \* history: pos at the start of the latest confirming excursion
    folded,         \* history: length of the last excursion folded back into the span
    counts,         \* main's counts: the sample histogram, the nonzero counters only
    total,          \* getCounts: count
    lo,             \* findOnOffThreshold / findSingleBitWidth: lo
    hi,             \* findOnOffThreshold / findSingleBitWidth: hi
    maxIndex,       \* history: largest index at which the span histogram was read or written
                    \* (followed in pass 2 at the level of spans)
    nSeen,          \* history: number of spans getSpans was given
    input,          \* the file main was started on
    status          \* "running", "ok" (main returned 0) or the error main printed before returning 1

vars == <<pc, mode, fileFormat, onOffThreshold, pos, error, eof, newState, state,
          curState, nextCount, count, leftOver, spans, realMaxSpan, singleBitWidth,
          bitLength, currentByte, out, ret, emitted, seedState, firstExc, lastExc,
          folded, counts, total, lo, hi, maxIndex, nSeen, input, status>>

\* the variables of the span pass
spanPassVars == <<pos, error, eof, newState, state, curState, nextCount, count, leftOver,
                  spans, realMaxSpan, bitLength, currentByte, out, ret, emitted,
                  seedState, firstExc, lastExc, folded>>

----------------------------------------------------------------------------
(* Program constants *)

MAX_SPAN == 96000

RADIO_FLICKER == 5

\* UINT32_MAX, the error sentinel, is the all-ones word: (uint32_t) -1.
UINT32_MAX == -1

(* Bounds of the model *)

\* longest sample stream of a span pass
MaxSamples == 25

\* bit widths 1..MaxBitWidth are tried by the decode pass
MaxBitWidth == 2

\* span lengths RADIO_FLICKER + 1 .. MaxSpanLen are given to the span histogram
MaxSpanLen == 24

\* and lengths MAX_SPAN + 1 .. MAX_SPAN + MaxOver
MaxOver == 2

\* number of spans given to the span histogram
MaxSpans == 3

\* longest sample stream of the histogram pass
MaxCount == 52

\* payload bytes of the small .wav and raw inputs: 0..MaxPayload
MaxPayload == 6

----------------------------------------------------------------------------
(* Sample formats and getSample *)

makeFileFormat(sampleByteSize, channels, channel, isSigned, isLittleEndian) ==
      ((sampleByteSize - 1) % 4)
    + (((channels - 1) % 256) * 4)
    + ((channel % 256) * 1024)
    + ((isSigned % 2) * 262144)
    + ((isLittleEndian % 2) * 524288)

getSampleByteSize(ff) == (ff % 4) + 1

FormatChannels(ff) == ((ff \div 4) % 256) + 1

FormatChannel(ff) == (ff \div 1024) % 256

FormatIsSigned(ff) == (ff \div 262144) % 2

FormatIsLittleEndian(ff) == (ff \div 524288) % 2

\* bytes per multi-channel frame: what one getSample call consumes
FrameSize(ff) == getSampleByteSize(ff) * FormatChannels(ff)

RECURSIVE AssembleBytes(_, _)
\* sample <<= 8; sample |= sample8[i], over the bytes in the order given
AssembleBytes(bytes, acc) ==
    IF bytes = <<>> THEN acc
    ELSE AssembleBytes(Tail(bytes), acc * 256 + Head(bytes))

Reverse(s) == [i \in 1..Len(s) |-> s[Len(s) + 1 - i]]

\* The value getSample returns for one complete frame of bytes.
getSample(frame, ff) ==
    LET sampleSize == getSampleByteSize(ff)
        channel    == FormatChannel(ff)
        sample8    == SubSeq(frame, sampleSize * channel + 1, sampleSize * channel + sampleSize)
        sample     == IF FormatIsLittleEndian(ff) = 1
                      THEN AssembleBytes(Reverse(sample8), 0)
                      ELSE AssembleBytes(sample8, 0)
    IN  IF FormatIsSigned(ff) = 1
        THEN (sample + 2^(8 * sampleSize - 1)) % (2^(8 * sampleSize))
        ELSE sample

\* What one getSample call can meet: a frame, a clean end of file, or a failed
\* read with feof unset.
ReadSample(frame) == [kind |-> "sample", frame |-> frame]

ReadEof == [kind |-> "eof", frame |-> <<>>]

ReadError == [kind |-> "ioerr", frame |-> <<>>]

\* main's default: 16 bits/sample, 1 channel, signed integers, little endian
RawFormat == makeFileFormat(2, 1, 0, 1, 1)

\* raw 16-bit frames: -32768, -1, 0, 32767
RawFrames == {<<0, 128>>, <<255, 255>>, <<0, 0>>, <<255, 127>>}

Thresholds == {1, 32768}

SampleState(sample, threshold) == IF sample < threshold THEN 0 ELSE 1

----------------------------------------------------------------------------
(* printMessage: the byte packing *)

HexDigits == <<"0", "1", "2", "3", "4", "5", "6", "7",
               "8", "9", "a", "b", "c", "d", "e", "f">>

\* printf("%02x", b)
Hex2(b) == <<HexDigits[(b \div 16) + 1], HexDigits[(b % 16) + 1]>>

RECURSIVE Repeat(_, _)
Repeat(s, n) == IF n <= 0 THEN <<>> ELSE s \o Repeat(s, n - 1)

RECURSIVE BitOr(_, _)
\* a | b on non-negative integers
BitOr(a, b) ==
    IF a = 0 THEN b
    ELSE IF b = 0 THEN a
    ELSE 2 * BitOr(a \div 2, b \div 2) + (IF a % 2 = 1 \/ b % 2 = 1 THEN 1 ELSE 0)

\* currentByte |= v, stored back into the uint8_t
OrByte(cb, v) == BitOr(cb, v) % 256

\* printMessage's loop body with a bug: a run of 1-bits that ends exactly on a
\* byte boundary does not flush the byte (left < bits instead of left <= bits).
PrintSpanLateFlush(bl, cb, o, st, samples, w) ==
    LET bits      == (samples + w \div 2) \div w
        left      == 8 - (bl % 8)
        fullBytes == (bits - left) \div 8
    IN  IF st = 0
        THEN IF left <= bits
             THEN [bitLength |-> bl + bits, currentByte |-> 0,
                   out |-> o \o Hex2(cb) \o Repeat(<<"0", "0">>, fullBytes)]
             ELSE [bitLength |-> bl + bits, currentByte |-> cb, out |-> o]
        ELSE IF left < bits
             THEN LET cb1   == OrByte(cb, 2^left - 1)
                      bits2 == bits - (8 * fullBytes + left)
                  IN  [bitLength |-> bl + bits,
                       currentByte |-> OrByte(0, 2^8 - 2^(8 - bits2)),
                       out |-> o \o Hex2(cb1) \o Repeat(<<"f", "f">>, fullBytes)]
             ELSE [bitLength |-> bl + bits,
                   currentByte |-> OrByte(cb, 2^left - 2^(left - bits)),
                   out |-> o]

\* printMessage's loop body for one span of 'samples' samples in state st:
\* the new bitLength, currentByte and stdout.
PrintSpan(bl, cb, o, st, samples, w) ==
    LET bits      == (samples + w \div 2) \div w
        left      == 8 - (bl % 8)
        fullBytes == (bits - left) \div 8
    IN  IF st = 0
        THEN IF left <= bits
             THEN [bitLength |-> bl + bits, currentByte |-> 0,
                   out |-> o \o Hex2(cb) \o Repeat(<<"0", "0">>, fullBytes)]
             ELSE [bitLength |-> bl + bits, currentByte |-> cb, out |-> o]
        ELSE IF left <= bits
             THEN LET cb1   == OrByte(cb, 2^left - 1)
                      bits2 == bits - (8 * fullBytes + left)
                  IN  [bitLength |-> bl + bits,
                       currentByte |-> OrByte(0, 2^8 - 2^(8 - bits2)),
                       out |-> o \o Hex2(cb1) \o Repeat(<<"f", "f">>, fullBytes)]
             ELSE [bitLength |-> bl + bits,
                   currentByte |-> OrByte(cb, 2^left - 2^(left - bits)),
                   out |-> o]

\* printMessage after its loop: the last partial byte and the newline
PrintTail(bl, cb, o) ==
    (IF bl % 8 # 0 THEN o \o Hex2(cb) ELSE o) \o <<"\n">>

----------------------------------------------------------------------------
(* getSpans: the span histogram *)

SpansAt(s, i) == IF i \in DOMAIN s THEN s[i] ELSE 0

\* spans[i]++
SpansIncr(s, i) ==
    IF i \in DOMAIN s THEN [s EXCEPT ![i] = @ + 1] ELSE s @@ (i :> 1)

\* getSpans' loop body for one returned span length
CountSpan(s, rms, maxSpan, c) ==
    [spans       |-> IF c <= maxSpan THEN SpansIncr(s, c) ELSE s,
     realMaxSpan |-> IF rms < c THEN c ELSE rms]

----------------------------------------------------------------------------
(* The span pass: ignoreFirstSpan and getNextSpan under getSpans or printMessage *)

\* getNextSpan with a bug: a change of state is accepted one sample early
ConfirmedEarly(nc) == nc >= RADIO_FLICKER

\* nextCount > radioFlicker: the change of state is confirmed
Confirmed(nc) == nc > RADIO_FLICKER

\* getNextSpan with a bug: the folded excursion's samples are dropped
FoldLosesFlicker(c, nc) == c + 1

\* count += nextCount + 1: a sample of the current state folds the pending
\* excursion back into the span
Fold(c, nc) == c + nc + 1

\* getNextSpan's entry: curState is the opposite of the caller's state
FlipState(st) == IF st = 0 THEN 1 ELSE 0

\* the caller returns UINT32_MAX after a failed read
Fail ==
    /\ pc' = "failed"
    /\ error' = 1
    /\ ret' = UINT32_MAX
    /\ UNCHANGED <<mode, fileFormat, onOffThreshold, pos, eof, newState, state, curState,
                   nextCount, count, leftOver, spans, realMaxSpan, singleBitWidth,
                   bitLength, currentByte, out, emitted, seedState, firstExc, lastExc,
                   folded>>

\* the caller's loop ends on getNextSpan's 0: getSpans returns realMaxSpan,
\* printMessage prints the last partial byte and returns bitLength
Finish ==
    /\ pc' = "done"
    /\ error' = 1
    /\ eof' = TRUE
    /\ IF mode = "getSpans"
       THEN /\ ret' = realMaxSpan
            /\ out' = out
       ELSE /\ ret' = bitLength
            /\ out' = PrintTail(bitLength, currentByte, out)
    /\ UNCHANGED <<mode, fileFormat, onOffThreshold, pos, newState, spans, realMaxSpan,
                   singleBitWidth, bitLength, currentByte, emitted, seedState,
                   firstExc, lastExc, folded>>

\* the caller's loop body for the span (st, c) that getNextSpan returned
Consume(st, c) ==
    IF mode = "getSpans"
    THEN /\ spans' = CountSpan(spans, realMaxSpan, MAX_SPAN, c).spans
         /\ realMaxSpan' = CountSpan(spans, realMaxSpan, MAX_SPAN, c).realMaxSpan
         /\ UNCHANGED <<bitLength, currentByte, out>>
    ELSE /\ bitLength' = PrintSpan(bitLength, currentByte, out, st, c, singleBitWidth).bitLength
         /\ currentByte' = PrintSpan(bitLength, currentByte, out, st, c, singleBitWidth).currentByte
         /\ out' = PrintSpan(bitLength, currentByte, out, st, c, singleBitWidth).out
         /\ UNCHANGED <<spans, realMaxSpan>>

\* ignoreFirstSpan, the first read (lines 276-291)
ReadFirst(r) ==
    /\ pc = "ignoreFirstSpan"
    /\ CASE r.kind = "ioerr" -> Fail
         [] r.kind = "eof" ->
                \* returns 0; getNextSpan flips the state, sees feof and returns 0
                /\ Finish
                /\ leftOver' = 0
                /\ count' = 0
                /\ nextCount' = 0
                /\ curState' = FlipState(state)
                /\ state' = FlipState(state)
         [] OTHER ->
                /\ pos' = pos + 1
                /\ error' = 0
                /\ curState' = SampleState(getSample(r.frame, fileFormat), onOffThreshold)
                /\ nextCount' = 0
                /\ pc' = "ignoreLoop"
                /\ UNCHANGED <<mode, fileFormat, onOffThreshold, eof, newState, state, count,
                               leftOver, spans, realMaxSpan, singleBitWidth, bitLength,
                               currentByte, out, ret, emitted, seedState, firstExc,
                               lastExc, folded>>

\* ignoreFirstSpan, one turn of its loop (lines 294-324); on a confirmed
\* change it returns nextCount and the caller enters getNextSpan
ReadIgnore(r) ==
    /\ pc = "ignoreLoop"
    /\ CASE r.kind = "ioerr" -> Fail
         [] r.kind = "eof" ->
                /\ Finish
                /\ leftOver' = 0
                /\ count' = 0
                /\ nextCount' = 0
                /\ curState' = FlipState(state)
                /\ state' = FlipState(state)
         [] OTHER ->
                LET ns == SampleState(getSample(r.frame, fileFormat), onOffThreshold)
                IN  /\ pos' = pos + 1
                    /\ error' = 0
                    /\ newState' = ns
                    /\ IF ns # curState
                       THEN IF Confirmed(nextCount + 1)
                            THEN /\ leftOver' = nextCount + 1
                                 /\ count' = nextCount + 1
                                 /\ nextCount' = 0
                                 /\ curState' = FlipState(state)
                                 /\ state' = FlipState(state)
                                 /\ pc' = "getNextSpan"
                                 /\ seedState' = ns
                                 /\ firstExc' = pos + 1 - (nextCount + 1)
                                 /\ lastExc' = pos + 1 - (nextCount + 1)
                            ELSE /\ nextCount' = nextCount + 1
                                 /\ UNCHANGED <<leftOver, count, curState, state, pc,
                                                seedState, firstExc, lastExc>>
                       ELSE /\ nextCount' = 0
                            /\ UNCHANGED <<leftOver, count, curState, state, pc,
                                           seedState, firstExc, lastExc>>
                    /\ UNCHANGED <<mode, fileFormat, onOffThreshold, eof, spans, realMaxSpan,
                                   singleBitWidth, bitLength, currentByte, out, ret,
                                   emitted, folded>>

\* getNextSpan, one turn of its loop (lines 354-389); on a confirmed change it
\* returns count, the caller consumes the span and calls getNextSpan again
ReadSpan(r) ==
    /\ pc = "getNextSpan"
    /\ CASE r.kind = "ioerr" -> Fail
         [] r.kind = "eof" ->
                /\ Finish
                /\ UNCHANGED <<leftOver, count, nextCount, curState, state>>
         [] OTHER ->
                LET ns == SampleState(getSample(r.frame, fileFormat), onOffThreshold)
                IN  /\ pos' = pos + 1
                    /\ error' = 0
                    /\ newState' = ns
                    /\ IF ns # curState
                       THEN IF Confirmed(nextCount + 1)
                            THEN /\ leftOver' = nextCount + 1
                                 /\ Consume(state, count)
                                 /\ emitted' = Append(emitted, <<state, count, seedState>>)
                                 /\ count' = nextCount + 1
                                 /\ nextCount' = 0
                                 /\ curState' = FlipState(state)
                                 /\ state' = FlipState(state)
                                 /\ seedState' = ns
                                 /\ lastExc' = pos + 1 - (nextCount + 1)
                                 /\ UNCHANGED folded
                            ELSE /\ nextCount' = nextCount + 1
                                 /\ UNCHANGED <<leftOver, count, curState, state, seedState,
                                                lastExc, emitted, folded, spans, realMaxSpan,
                                                bitLength, currentByte, out>>
                       ELSE /\ count' = Fold(count, nextCount)
                            /\ folded' = IF nextCount > 0 THEN nextCount ELSE folded
                            /\ nextCount' = 0
                            /\ UNCHANGED <<leftOver, curState, state, seedState, lastExc,
                                           emitted, spans, realMaxSpan, bitLength,
                                           currentByte, out>>
                    /\ UNCHANGED <<pc, mode, fileFormat, onOffThreshold, eof,
                                   singleBitWidth, ret, firstExc>>

\* what a read at offset pos of a stream of at most MaxSamples samples can meet
Reads ==
    {ReadEof, ReadError} \cup
    (IF pos < MaxSamples THEN {ReadSample(f) : f \in RawFrames} ELSE {})

\* bit widths the decode pass is run with; the last makes a short span round to 0 bits
BitWidths == (1..MaxBitWidth) \cup {2 * (RADIO_FLICKER + 1) + 1}

\* getSpans (lines 404-417) or printMessage (lines 532-539) about to call ignoreFirstSpan
Init ==
    /\ pc = "ignoreFirstSpan"
    /\ mode \in {"getSpans", "printMessage"}
    /\ fileFormat = RawFormat
    /\ onOffThreshold \in Thresholds
    /\ singleBitWidth \in (IF mode = "printMessage" THEN BitWidths ELSE {0})
    /\ pos = 0
    /\ error = 0
    /\ eof = FALSE
    /\ newState = 0
    /\ state = 0
    /\ curState = 0
    /\ nextCount = 0
    /\ count = 0
    /\ leftOver = 0
    /\ spans = <<>>
    /\ realMaxSpan = 0
    /\ bitLength = 0
    /\ currentByte = 0
    /\ out = <<>>
    /\ ret = 0
    /\ emitted = <<>>
    /\ seedState = 0
    /\ firstExc = 0
    /\ lastExc = 0
    /\ folded = 0
    /\ counts = <<>>
    /\ total = 0
    /\ lo = 0
    /\ hi = 0
    /\ maxIndex = 0
    /\ nSeen = 0
    /\ input = "stream"
    /\ status = "running"

\* the variables the span pass leaves alone
mainVars == <<counts, total, lo, hi, maxIndex, nSeen, input, status>>

StreamFirst == (\E r \in Reads : ReadFirst(r)) /\ UNCHANGED mainVars

StreamIgnore == (\E r \in Reads : ReadIgnore(r)) /\ UNCHANGED mainVars

StreamSpan == (\E r \in Reads : ReadSpan(r)) /\ UNCHANGED mainVars

Next == StreamFirst \/ StreamIgnore \/ StreamSpan

Spec == Init /\ [][Next]_vars

----------------------------------------------------------------------------
(* A bit-at-a-time reference decoder, for comparison with printMessage *)

\* round-half-up of length / bitWidth
RoundBits(len, w) == (2 * len + w) \div (2 * w)

RECURSIVE RefBits(_, _)
\* the bit sequence of a list of spans: per span, RoundBits copies of its state
RefBits(sp, w) ==
    IF sp = <<>> THEN <<>>
    ELSE Repeat(<<Head(sp)[1]>>, RoundBits(Head(sp)[2], w)) \o RefBits(Tail(sp), w)

RECURSIVE BitsValue(_, _)
\* the byte whose high-order bits are 'bits' (at most 8), the rest zero
BitsValue(bits, weight) ==
    IF bits = <<>> THEN 0
    ELSE Head(bits) * weight + BitsValue(Tail(bits), weight \div 2)

RECURSIVE RefHex(_)
\* the hexadecimal text of the MSB-first packing of a bit sequence
RefHex(bits) ==
    IF bits = <<>> THEN <<>>
    ELSE IF Len(bits) <= 8 THEN Hex2(BitsValue(bits, 128))
    ELSE Hex2(BitsValue(SubSeq(bits, 1, 8), 128)) \o RefHex(SubSeq(bits, 9, Len(bits)))

RECURSIVE SumLen(_)
SumLen(sp) == IF sp = <<>> THEN 0 ELSE Head(sp)[2] + SumLen(Tail(sp))

----------------------------------------------------------------------------
(* Claims about the span pass, checked under Spec *)

C3_SpanStateIsSampleState ==
    /\ \A i \in DOMAIN emitted : emitted[i][1] = emitted[i][3]
    /\ \A i \in DOMAIN emitted : i > 1 => emitted[i][1] # emitted[i - 1][1]

\* C5: when printMessage returns, stdout is the hexadecimal text of the
\* MSB-first packing of the reference bit sequence of the spans it was given,
\* ceil(bitLength / 8) bytes and a newline, and it returns the number of
\* reference bits; while it runs, stdout holds the complete bytes so far
C5_PackingMatchesReference ==
    mode = "printMessage" =>
        LET bits == RefBits(emitted, singleBitWidth)
        IN  /\ pc = "done" =>
                /\ out = RefHex(bits) \o <<"\n">>
                /\ ret = Len(bits)
                /\ Len(out) = 2 * ((ret + 7) \div 8) + 1
            /\ pc = "getNextSpan" =>
                /\ bitLength = Len(bits)
                /\ out = RefHex(SubSeq(bits, 1, 8 * (bitLength \div 8)))

\* C5's case: printMessage returned after a span that ended exactly on a byte
\* boundary and at least one more span
C5_Witness ==
    /\ mode = "printMessage"
    /\ pc = "done"
    /\ Len(emitted) >= 2
    /\ RefBits(<<emitted[1]>>, singleBitWidth) # <<>>
    /\ Len(RefBits(<<emitted[1]>>, singleBitWidth)) % 8 = 0
    /\ emitted[1][1] = 1

\* C7: a decode pass that fails on a read has printed nothing of the message
C7_NoPartialMessage ==
    (mode = "printMessage" /\ pc = "failed") => out = <<>>

\* C9: every returned span has at least RADIO_FLICKER + 1 samples; a span
\* starts with exactly the RADIO_FLICKER + 1 confirming samples; every sample
\* read since the start of the first confirming excursion is counted once, in
\* a returned span, in the current span or as pending; and the returned
\* lengths sum to the samples between the starts of the first and the latest
\* confirming excursion
C9_SpanLengthAccounting ==
    /\ \A i \in DOMAIN emitted : emitted[i][2] >= RADIO_FLICKER + 1
    /\ SumLen(emitted) = lastExc - firstExc
    /\ pc = "getNextSpan" =>
          /\ leftOver = RADIO_FLICKER + 1
          /\ count >= leftOver
          /\ lastExc = pos - nextCount - count
          /\ SumLen(emitted) + count + nextCount = pos - firstExc

\* C9's case: two spans were returned and an excursion was folded back
C9_Witness ==
    /\ pc = "getNextSpan"
    /\ Len(emitted) >= 2
    /\ folded > 0
    /\ \E i \in DOMAIN emitted : emitted[i][2] > RADIO_FLICKER + 1

----------------------------------------------------------------------------
(* findSingleBitWidth *)

SetMin(S) == CHOOSE x \in S : \A y \in S : x <= y

SetMax(S) == CHOOSE x \in S : \A y \in S : x >= y

\* the indices at which findSingleBitWidth reads a nonzero spans[i]: counters
\* of the histogram and, past its MAX_SPAN + 1 counters, the memory there (g)
NonZeroAt(s, g) ==
    {i \in DOMAIN s : s[i] # 0} \cup {i \in DOMAIN g : i > MAX_SPAN /\ g[i] # 0}

\* the first loop (lines 463-470): the first i < maxSpan with spans[i] != 0
FindLo(s, g, maxSpan) ==
    SetMin({i \in NonZeroAt(s, g) : i < maxSpan} \cup {maxSpan})

\* the second loop (lines 471-478): the first i from maxSpan down, i > lo,
\* with spans[i] != 0
FindHi(s, g, maxSpan, l) ==
    SetMax({i \in NonZeroAt(s, g) : l < i /\ i <= maxSpan} \cup {0})

\* the largest index the two loops read: the second loop starts at maxSpan
\* when lo < maxSpan, otherwise the first loop ran up to maxSpan - 1
BoundsMaxRead(s, g, maxSpan) ==
    IF maxSpan > FindLo(s, g, maxSpan) THEN maxSpan ELSE maxSpan - 1

\* lines 486-490
EndAt(h) == IF h \div 256 < 10 THEN 10 ELSE h \div 256

\* lines 503-507: the distance from j to the nearest multiple of i
ModDist(j, i) ==
    LET e == j % i
    IN  IF e > i - e THEN i - e ELSE e

RECURSIVE ErrNum(_, _, _, _)
\* the j loop (lines 496-511) from j on: curErr * i * i, which is an integer
ErrNum(s, j, h, i) ==
    IF j >= h THEN 0
    ELSE (IF SpansAt(s, j) # 0
          THEN ModDist(j, i) * ModDist(j, i) * SpansAt(s, j)
          ELSE 0) + ErrNum(s, j + 1, h, i)

\* the search with a bug: a later candidate of equal error replaces the best
ImprovesOrTies(minNum, minDen, num, den) ==
    minDen = 0 \/ minNum * den >= num * minDen

\* minErr > curErr, for minErr = minNum / minDen and curErr = num / den;
\* minDen = 0 stands for the initial 1e99, which every curErr is below
Improves(minNum, minDen, num, den) ==
    minDen = 0 \/ minNum * den > num * minDen

RECURSIVE SearchFrom(_, _, _, _, _, _, _, _)
\* the i loop (lines 493-517) from candidate i down to endAt
SearchFrom(s, l, h, i, endAt, best, minNum, minDen) ==
    IF i < endAt THEN best
    ELSE IF Improves(minNum, minDen, ErrNum(s, l, h, i), i * i)
         THEN SearchFrom(s, l, h, i - 1, endAt, i, ErrNum(s, l, h, i), i * i)
         ELSE SearchFrom(s, l, h, i - 1, endAt, best, minNum, minDen)

\* findSingleBitWidth on a histogram it reads inside its counters
findSingleBitWidth(s, maxSpan) ==
    LET l == FindLo(s, <<>>, maxSpan)
        h == FindHi(s, <<>>, maxSpan, l)
    IN  IF l > h THEN 0
        ELSE SearchFrom(s, l, h, h, EndAt(h), 0, 0, 0)

----------------------------------------------------------------------------
(* Pass 2 at the level of spans, and the bit-width search: main lines 716-733 *)

\* the lengths getNextSpan returns to getSpans
SpanLens ==
    ((RADIO_FLICKER + 1)..MaxSpanLen) \cup {MAX_SPAN + k : k \in 1..MaxOver}

\* what the memory past the histogram's counters can hold
Garbage == [(MAX_SPAN + 1)..(MAX_SPAN + MaxOver) -> {0, 1}]

\* getSpans after its zeroing loop (lines 404-416), which writes spans[0..maxSpan]
InitWidth ==
    /\ pc = "getSpans"
    /\ mode = "getSpans"
    /\ fileFormat = RawFormat
    /\ onOffThreshold = 32768
    /\ singleBitWidth = 0
    /\ pos = 0
    /\ error = 0
    /\ eof = FALSE
    /\ newState = 0
    /\ state = 0
    /\ curState = 0
    /\ nextCount = 0
    /\ count = 0
    /\ leftOver = 0
    /\ spans = <<>>
    /\ realMaxSpan = 0
    /\ bitLength = 0
    /\ currentByte = 0
    /\ out = <<>>
    /\ ret = 0
    /\ emitted = <<>>
    /\ seedState = 0
    /\ firstExc = 0
    /\ lastExc = 0
    /\ folded = 0
    /\ counts = <<>>
    /\ total = 0
    /\ lo = 0
    /\ hi = 0
    /\ maxIndex = MAX_SPAN
    /\ nSeen = 0
    /\ input = "spans"
    /\ status = "running"

\* the variables pass 2 at the level of spans leaves alone
sampleVars == <<mode, fileFormat, onOffThreshold, pos, error, eof, newState, state,
                curState, nextCount, leftOver, bitLength, currentByte, out, emitted,
                seedState, firstExc, lastExc, folded, counts, total, input>>

\* getSpans' loop (lines 423-444) on getNextSpan's return value c
GetSpansLoop(c) ==
    /\ pc = "getSpans"
    /\ count' = c
    /\ CASE c = UINT32_MAX ->
                /\ ret' = UINT32_MAX
                /\ pc' = "failed"
                /\ UNCHANGED <<spans, realMaxSpan, maxIndex, nSeen>>
         [] c = 0 ->
                /\ ret' = realMaxSpan
                /\ pc' = "done"
                /\ UNCHANGED <<spans, realMaxSpan, maxIndex, nSeen>>
         [] OTHER ->
                /\ nSeen < MaxSpans
                /\ nSeen' = nSeen + 1
                /\ spans' = CountSpan(spans, realMaxSpan, MAX_SPAN, c).spans
                /\ realMaxSpan' = CountSpan(spans, realMaxSpan, MAX_SPAN, c).realMaxSpan
                /\ maxIndex' = IF c <= MAX_SPAN /\ c > maxIndex THEN c ELSE maxIndex
                /\ UNCHANGED <<ret, pc>>
    /\ UNCHANGED <<lo, hi, singleBitWidth, status>>
    /\ UNCHANGED sampleVars

----------------------------------------------------------------------------
(* Pass 1: getCounts and findOnOffThreshold, main lines 689-714 *)

\* (uint32_t) (numCounts - 1): with 4-byte samples the all-ones word
LastCount(ff) ==
    IF getSampleByteSize(ff) = 4 THEN UINT32_MAX ELSE 2^(8 * getSampleByteSize(ff)) - 1

RECURSIVE SumCounts(_, _)
\* the sum of the counters c[i] over the i of a finite set
SumCounts(c, S) ==
    IF S = {} THEN 0
    ELSE LET i == CHOOSE x \in S : TRUE
         IN  c[i] + SumCounts(c, S \ {i})

\* the first loop (lines 226-237): the first value, going up, at which the
\* running count exceeds skipCount; numCounts - 1 when there is none
ThresholdLo(c, cnt, ff) ==
    LET skipCount == cnt \div 50
        found     == {i \in DOMAIN c :
                         c[i] # 0 /\ SumCounts(c, {k \in DOMAIN c : k <= i}) > skipCount}
    IN  IF found = {} THEN LastCount(ff) ELSE SetMin(found)

\* the second loop (lines 238-250): the first value above lo, going down from
\* numCounts - 1, at which the running count exceeds skipCount; 0 when none
ThresholdHi(c, cnt, ff) ==
    LET skipCount == cnt \div 50
        l         == ThresholdLo(c, cnt, ff)
    IN  IF l = UINT32_MAX THEN 0
        ELSE SetMax({i \in DOMAIN c :
                        i > l /\ c[i] # 0
                        /\ SumCounts(c, {k \in DOMAIN c : k >= i}) > skipCount}
                    \cup {0})

\* lines 251-255; lo and hi are unsigned, so an all-ones lo is >= every hi
findOnOffThreshold(c, cnt, ff) ==
    IF \/ ThresholdLo(c, cnt, ff) = UINT32_MAX
       \/ ThresholdLo(c, cnt, ff) >= ThresholdHi(c, cnt, ff)
    THEN 0
    ELSE (ThresholdHi(c, cnt, ff) + ThresholdLo(c, cnt, ff)) \div 2

\* a pass (getSpans or printMessage) is entered at the data start (fseek to
\* startOffset), with its locals as declared
StartPass(m) ==
    /\ mode' = m
    /\ pc' = "ignoreFirstSpan"
    /\ pos' = 0
    /\ eof' = FALSE
    /\ error' = 0
    /\ newState' = 0
    /\ state' = 0
    /\ curState' = 0
    /\ nextCount' = 0
    /\ count' = 0
    /\ leftOver' = 0
    /\ emitted' = <<>>
    /\ seedState' = 0
    /\ firstExc' = 0
    /\ lastExc' = 0
    /\ folded' = 0
    /\ ret' = 0
    /\ IF m = "getSpans"
       THEN /\ spans' = <<>>
            /\ realMaxSpan' = 0
            /\ UNCHANGED <<bitLength, currentByte, out>>
       ELSE /\ bitLength' = 0
            /\ currentByte' = 0
            /\ out' = <<>>
            /\ UNCHANGED <<spans, realMaxSpan>>

\* getCounts, one turn of its loop (lines 189-205); at the end of the file it
\* returns and main finds the threshold and enters pass 2 (lines 700-718)
CountRead(r) ==
    /\ pc = "getCounts"
    /\ CASE r.kind = "ioerr" ->
                /\ pc' = "exit"
                /\ status' = "getCounts failed"
                /\ error' = 1
                /\ UNCHANGED <<mode, onOffThreshold, pos, eof, newState, state, curState,
                               nextCount, count, leftOver, spans, realMaxSpan, bitLength,
                               currentByte, out, ret, emitted, seedState, firstExc,
                               lastExc, folded, counts, total, lo, hi>>
         [] r.kind = "eof" ->
                /\ lo' = ThresholdLo(counts, total, fileFormat)
                /\ hi' = ThresholdHi(counts, total, fileFormat)
                /\ onOffThreshold' = findOnOffThreshold(counts, total, fileFormat)
                /\ IF findOnOffThreshold(counts, total, fileFormat) = 0
                   THEN /\ pc' = "exit"
                        /\ status' = "Error: Can't find on off ranges"
                        /\ error' = 1
                        /\ eof' = TRUE
                        /\ UNCHANGED <<mode, pos, newState, state, curState, nextCount,
                                       count, leftOver, spans, realMaxSpan, bitLength,
                                       currentByte, out, ret, emitted, seedState,
                                       firstExc, lastExc, folded>>
                   ELSE /\ StartPass("getSpans")
                        /\ UNCHANGED status
                /\ UNCHANGED <<counts, total>>
         [] OTHER ->
                /\ IF getSampleByteSize(fileFormat) = 4
                   THEN \* 1 << 32 in getSample's sign conversion (line 165) is undefined
                        /\ pc' = "undefined"
                        /\ UNCHANGED <<counts, total, pos>>
                   ELSE /\ counts' = SpansIncr(counts, getSample(r.frame, fileFormat))
                        /\ total' = total + 1
                        /\ pos' = pos + 1
                        /\ pc' = "getCounts"
                /\ error' = 0
                /\ UNCHANGED <<mode, onOffThreshold, eof, newState, state, curState,
                               nextCount, count, leftOver, spans, realMaxSpan, bitLength,
                               currentByte, out, ret, emitted, seedState, firstExc,
                               lastExc, folded, lo, hi, status>>
    /\ UNCHANGED <<fileFormat, singleBitWidth, maxIndex, nSeen, input>>

\* raw 16-bit frames of the histogram pass: the samples 0, 1 and 65535
CountFrames == {<<0, 128>>, <<1, 128>>, <<255, 127>>}

CountReads ==
    {ReadEof, ReadError} \cup
    (IF pos < MaxCount THEN {ReadSample(f) : f \in CountFrames} ELSE {})

\* main about to call getCounts on a raw 16-bit stream (lines 689-700)
InitThreshold ==
    /\ pc = "getCounts"
    /\ mode = "getCounts"
    /\ fileFormat = RawFormat
    /\ onOffThreshold = 0
    /\ singleBitWidth = 0
    /\ pos = 0
    /\ error = 0
    /\ eof = FALSE
    /\ newState = 0
    /\ state = 0
    /\ curState = 0
    /\ nextCount = 0
    /\ count = 0
    /\ leftOver = 0
    /\ spans = <<>>
    /\ realMaxSpan = 0
    /\ bitLength = 0
    /\ currentByte = 0
    /\ out = <<>>
    /\ ret = 0
    /\ emitted = <<>>
    /\ seedState = 0
    /\ firstExc = 0
    /\ lastExc = 0
    /\ folded = 0
    /\ counts = <<>>
    /\ total = 0
    /\ lo = 0
    /\ hi = 0
    /\ maxIndex = 0
    /\ nSeen = 0
    /\ input = "stream"
    /\ status = "running"

StreamCount == \E r \in CountReads : CountRead(r)

NextThreshold == StreamCount

SpecThreshold == InitThreshold /\ [][NextThreshold]_vars

----------------------------------------------------------------------------
(* main after pass 2 and after pass 3: lines 718-750 *)

\* main's check of getSpans' result and its call findSingleBitWidth(spans,
\* realMaxSpan) (lines 718-744). A read past the histogram's counters is
\* undefined behaviour: it may find a zero or a nonzero word (g), and what the
\* run does after it is not followed.
MainWidth(g) ==
    /\ mode = "getSpans"
    /\ pc \in {"done", "failed"}
    /\ IF pc = "failed"
       THEN /\ status' = "Error: 1"
            /\ pc' = "exit"
            /\ UNCHANGED <<lo, hi, maxIndex, singleBitWidth>>
            /\ UNCHANGED spanPassVars
            /\ UNCHANGED mode
       ELSE /\ lo' = FindLo(spans, g, ret)
            /\ hi' = FindHi(spans, g, ret, FindLo(spans, g, ret))
            /\ maxIndex' = IF BoundsMaxRead(spans, g, ret) > maxIndex
                           THEN BoundsMaxRead(spans, g, ret) ELSE maxIndex
            /\ IF BoundsMaxRead(spans, g, ret) > MAX_SPAN
               THEN /\ pc' = "undefined"
                    /\ UNCHANGED <<singleBitWidth, status, mode>>
                    /\ UNCHANGED spanPassVars
               ELSE /\ singleBitWidth' = findSingleBitWidth(spans, ret)
                    /\ IF findSingleBitWidth(spans, ret) = 0
                       THEN /\ status' = "Error: 2"
                            /\ pc' = "exit"
                            /\ UNCHANGED mode
                            /\ UNCHANGED spanPassVars
                       ELSE /\ StartPass("printMessage")
                            /\ UNCHANGED status
    /\ UNCHANGED <<fileFormat, onOffThreshold, counts, total, nSeen, input>>

\* main's check of what printMessage returns (lines 744-750)
MainEnd ==
    /\ mode = "printMessage"
    /\ pc \in {"done", "failed"}
    /\ status' = IF pc = "failed" THEN "Error: Durp?" ELSE "ok"
    /\ pc' = "exit"
    /\ UNCHANGED <<mode, fileFormat, onOffThreshold, singleBitWidth, counts, total, lo, hi,
                   maxIndex, nSeen, input>>
    /\ UNCHANGED spanPassVars

WidthSpan == \E c \in SpanLens \cup {0, UINT32_MAX} : GetSpansLoop(c)

WidthFind == \E g \in Garbage : MainWidth(g)

NextWidth == WidthSpan \/ WidthFind

SpecWidth == InitWidth /\ [][NextWidth]_vars

----------------------------------------------------------------------------
(* main on a file: lines 606-750 *)

\* the four bytes of a uint32_t, in the little-endian host's memory order
LE32Bytes(v) ==
    <<v % 256, (v \div 256) % 256, (v \div 65536) % 256, (v \div 16777216) % 256>>

LE16Bytes(v) == <<v % 256, (v \div 256) % 256>>

\* the uint16_t header field at byte offset off
LE16(b, off) == b[off + 1] + 256 * b[off + 2]

\* the bytes of the uint32_t header field at byte offset off
Field4(b, off) == SubSeq(b, off + 1, off + 4)

\* lines 649-656: the header fields that make a file a .wav
Recognized(b) ==
    /\ Field4(b, 0) = <<82, 73, 70, 70>>           \* tag == 0x46464952, "RIFF"
    /\ Field4(b, 4) = LE32Bytes(Len(b) - 8)        \* fileSize == fileSize - 8
    /\ Field4(b, 8) = <<87, 65, 86, 69>>           \* type == 0x45564157, "WAVE"
    /\ Field4(b, 12) = <<102, 109, 116, 32>>       \* chunkMarker == 0x20746d66, "fmt "
    /\ Field4(b, 16) = LE32Bytes(16)               \* fileSizeSoFar == 16
    /\ LE16(b, 20) = 1                             \* format == 1, PCM
    /\ Field4(b, 36) = <<100, 97, 116, 97>>        \* dataTag == 0x61746164, "data"
    /\ Field4(b, 40) = LE32Bytes(Len(b) - 44)      \* dataSize == fileSize - 44

\* lines 658-662: the .wav formats main refuses
WavRefused(b) ==
    \/ LE16(b, 22) = 0
    \/ LE16(b, 22) > 256
    \/ LE16(b, 34) % 8 # 0
    \/ LE16(b, 34) = 0
    \/ LE16(b, 34) > 32

IsWav(b) == Len(b) >= 44 /\ Recognized(b)

\* main's startOffset once the header is read
StartOffset(b) == IF IsWav(b) /\ ~WavRefused(b) THEN 44 ELSE 0

\* a canonical 44-byte header for n bytes of data, declaring dataSize d
WavHeader(channels, bits, n, d) ==
    <<82, 73, 70, 70>> \o LE32Bytes(36 + n) \o <<87, 65, 86, 69>>
    \o <<102, 109, 116, 32>> \o LE32Bytes(16) \o LE16Bytes(1) \o LE16Bytes(channels)
    \o LE32Bytes(48000) \o LE32Bytes(0) \o LE16Bytes(0) \o LE16Bytes(bits)
    \o <<100, 97, 116, 97>> \o LE32Bytes(d)

\* n bytes of sample data
Payload(n) == [i \in 1..n |-> IF i % 4 \in {1, 2} THEN 0 ELSE 100]

\* raw 16-bit little-endian bytes of a two-level signal: sample i is 16000
\* when on(i) and 0 otherwise
Waveform(nSamples, IsOn(_)) ==
    [k \in 1..(2 * nSamples) |->
        IF IsOn((k + 1) \div 2) THEN (IF k % 2 = 1 THEN 128 ELSE 62) ELSE 0]

\* 200 off samples, 20 times (50 on, 50 off), 200 off samples
SquareOn(i) == i > 200 /\ i <= 2200 /\ (i - 201) % 100 < 50

SquareWave == Waveform(2400, SquareOn)

\* 8 off, 12 on, 24 off, 12 on, 12 off, 24 on, 12 off, 12 on, 8 off
MixedOn(i) ==
    \/ i \in 9..20
    \/ i \in 45..56
    \/ i \in 69..92
    \/ i \in 105..116

MixedWave == Waveform(124, MixedOn)

\* the files main is run on
Inputs ==
    {[kind |-> "wav", channels |-> c, bits |-> b, len |-> n] :
        c \in {0, 1, 2, 257}, b \in {0, 8, 12, 16, 24, 32, 40}, n \in 0..MaxPayload}
    \cup {[kind |-> k, channels |-> 1, bits |-> 16, len |-> n] :
        k \in {"raw", "padded", "truncated"}, n \in 0..MaxPayload}
    \cup {[kind |-> k, channels |-> 1, bits |-> 16, len |-> 0] : k \in {"square", "mixed"}}

\* the bytes of a file
FileBytes(in) ==
    CASE in.kind = "square" -> SquareWave
      [] in.kind = "mixed" -> MixedWave
      [] in.kind = "wav" -> WavHeader(in.channels, in.bits, in.len, in.len) \o Payload(in.len)
      [] in.kind = "truncated" ->
            \* a header that declares more data than the file holds
            WavHeader(in.channels, in.bits, in.len, in.len + 2) \o Payload(in.len)
      [] in.kind = "padded" -> Payload(44 + in.len)
      [] OTHER -> Payload(in.len)

\* what getSample meets at frame p of the data of file bytes b: the frame, or
\* the end of the file when the selected channel's sample is not all there
\* (a seek past the end of the file succeeds)
FileRead(b, ff, p) ==
    LET start == StartOffset(b) + p * FrameSize(ff)
        need  == getSampleByteSize(ff) * (FormatChannel(ff) + 1)
    IN  IF start + need <= Len(b)
        THEN ReadSample([k \in 1..need |-> b[start + k]])
        ELSE ReadEof

OnlySupports ==
    "Error: Only supports raw 16 bit signed data and 8, 16, 24, 32 bit .wav with <257 channels"

NeedsSixtyFourBit == "Error: 32 bit samples requires a 64 bit binary and 16 GiB of RAM."

\* whether numCounts, ((size_t) 1) << (8 * sampleByteSize), is 0 (lines 689-695):
\* never for 1 to 3 bytes; for 4 bytes it is 2^32 where size_t has 64 bits, and
\* a shift by the full width of size_t where it has 32
SizeOverflows(sampleByteSize) == IF sampleByteSize = 4 THEN {TRUE, FALSE} ELSE {FALSE}

\* main from the header read to the call of getCounts (lines 640-700)
MainOpen ==
    /\ pc = "main"
    /\ LET b == FileBytes(input)
       IN  IF IsWav(b)
           THEN IF WavRefused(b)
                THEN /\ status' = OnlySupports
                     /\ pc' = "exit"
                     /\ UNCHANGED fileFormat
                ELSE /\ fileFormat' = makeFileFormat(LE16(b, 34) \div 8, LE16(b, 22), 0, 1, 1)
                     /\ \E overflow \in SizeOverflows(LE16(b, 34) \div 8) :
                            IF overflow
                            THEN /\ status' = NeedsSixtyFourBit
                                 /\ pc' = "exit"
                            ELSE /\ pc' = "getCounts"
                                 /\ UNCHANGED status
           ELSE IF Len(b) % 2 = 1
                THEN /\ status' = OnlySupports
                     /\ pc' = "exit"
                     /\ UNCHANGED fileFormat
                ELSE /\ pc' = "getCounts"
                     /\ UNCHANGED <<fileFormat, status>>
    /\ UNCHANGED <<mode, onOffThreshold, singleBitWidth, counts, total, lo, hi, maxIndex,
                   nSeen, input>>
    /\ UNCHANGED spanPassVars

InitMain ==
    /\ pc = "main"
    /\ mode = "getCounts"
    /\ fileFormat = RawFormat
    /\ onOffThreshold = 0
    /\ singleBitWidth = 0
    /\ pos = 0
    /\ error = 0
    /\ eof = FALSE
    /\ newState = 0
    /\ state = 0
    /\ curState = 0
    /\ nextCount = 0
    /\ count = 0
    /\ leftOver = 0
    /\ spans = <<>>
    /\ realMaxSpan = 0
    /\ bitLength = 0
    /\ currentByte = 0
    /\ out = <<>>
    /\ ret = 0
    /\ emitted = <<>>
    /\ seedState = 0
    /\ firstExc = 0
    /\ lastExc = 0
    /\ folded = 0
    /\ counts = <<>>
    /\ total = 0
    /\ lo = 0
    /\ hi = 0
    /\ maxIndex = 0
    /\ nSeen = 0
    /\ input \in Inputs
    /\ status = "running"

FileCount == CountRead(FileRead(FileBytes(input), fileFormat, pos))

FileFirst == ReadFirst(FileRead(FileBytes(input), fileFormat, pos)) /\ UNCHANGED mainVars

FileIgnore == ReadIgnore(FileRead(FileBytes(input), fileFormat, pos)) /\ UNCHANGED mainVars

FileSpan == ReadSpan(FileRead(FileBytes(input), fileFormat, pos)) /\ UNCHANGED mainVars

FileWidth == MainWidth(<<>>)

NextMain ==
    \/ MainOpen
    \/ FileCount
    \/ FileFirst
    \/ FileIgnore
    \/ FileSpan
    \/ FileWidth
    \/ MainEnd

SpecMain == InitMain /\ [][NextMain]_vars

----------------------------------------------------------------------------
(* Claims about the span histogram and the bit-width search, under SpecWidth *)

RECURSIVE SetSum(_, _, _)
\* the sum of f(j, i) over the j of a finite set
SetSum(S, i, s) ==
    IF S = {} THEN 0
    ELSE LET j == CHOOSE x \in S : TRUE
         IN  s[j] * (IF j % i < i - (j % i) THEN j % i ELSE i - (j % i))
                  * (IF j % i < i - (j % i) THEN j % i ELSE i - (j % i))
             + SetSum(S \ {j}, i, s)

\* i * i * error(i) of C6, for the histogram and bounds of the state
ClaimErr(i) == SetSum({j \in DOMAIN spans : lo <= j /\ j < hi /\ spans[j] # 0}, i, spans)

C10_HistogramAccessInBounds == maxIndex \in 0..MAX_SPAN

\* C4: main reports that no threshold was found exactly when the trimmed
\* bounds do not satisfy lo < hi; otherwise pass 2 runs with (hi + lo) / 2
C4_ThresholdFailsIffDegenerate ==
    (pc \in {"exit", "ignoreFirstSpan"} /\ status # "getCounts failed") =>
        /\ status = "Error: Can't find on off ranges" <=> ~(lo < hi)
        /\ lo < hi => (pc = "ignoreFirstSpan" /\ onOffThreshold = (hi + lo) \div 2)

----------------------------------------------------------------------------
(* Claims about main run on a file *)

\* C1: run on the square wave (200 off samples, 20 times 50 on and 50 off, 200
\* off samples), main ends with every stage succeeded, a bit width in 49..51
\* and the 20-bit message 10101010101010101010 printed as the three bytes
\* AA AA A0.
C1_SquareWaveDecodes ==
    (input.kind = "square" /\ pc = "exit") =>
        /\ status = "ok"
        /\ singleBitWidth \in 49..51
        /\ ret = 20
        /\ out = <<"a", "a", "a", "a", "a", "0", "\n">>

\* the frame size the format descriptor of a recognized .wav gives
HeaderFrameSize(b) == (LE16(b, 34) \div 8) * LE16(b, 22)

\* a configuration error: an unsupported sample width or channel count, or a
\* data length that is not a whole number of frames
ConfigError(b) ==
    IF IsWav(b)
    THEN \/ WavRefused(b)
         \/ (Len(b) - 44) % HeaderFrameSize(b) # 0
    ELSE Len(b) % 2 # 0

\* C8: an input with a configuration error never gets past main's checks: main
\* exits with the format error and pass 1 is never started.
C8_ConfigRejectedBeforePass1 ==
    ConfigError(FileBytes(input)) =>
        /\ pc \in {"main", "exit"}
        /\ pc = "exit" => status = OnlySupports

====
